---- MODULE Spec2Model ----
(***************************************************************************)
(* State-machine model of the ImagineAI Studio component `App`             *)
(* (src/App.tsx, lines 92-915) and of the service functions it awaits      *)
(* (src/unnamed/part_002, the geminiService module).                       *)
(*                                                                         *)
(* Conventions                                                             *)
(*  - One action per handler invocation or asynchronous continuation.  A   *)
(*    handler is invoked while the screen hosting its control is rendered  *)
(*    (the `status === ...` sections of the JSX).  Conditions that a       *)
(*    handler checks again in an early return (a blank text, a missing     *)
(*    selectedImage) are left to the handler: the `disabled` attributes    *)
(*    that duplicate them are not assumed.                                 *)
(*  - An asynchronous handler is split at its await / onload: the first    *)
(*    action captures the closure (the render's state values the           *)
(*    continuation will read), the second runs the continuation.           *)
(*  - The useEffect on selectedImage (lines 179-187) runs in the same      *)
(*    step as the handler that changed selectedImage.                      *)
(*  - zoomScale is counted in units of 0.005 (1.0 = 200): the wheel        *)
(*    factor 0.005 is then one unit per deltaY.  Pan offsets and pointer   *)
(*    coordinates are CSS pixels.  Selection percentages are exact         *)
(*    rationals <<n, d>> in lowest terms.                                  *)
(*  - Text is a sequence of tokens, " " being white space.  Numbers held   *)
(*    in state are Num(n) records, so that undefined can take their place. *)
(*  - State that no modelled handler reads (config, negativePrompt,        *)
(*    targetResizeRatio, isAdjusting) is left out.                         *)
(***************************************************************************)
EXTENDS Integers, Sequences, FiniteSets, TLC

\* JavaScript values that are not of the type of their slot.  TLC compares
\* only values of one kind, so null, undefined and numbers are records.
NULL == [null |-> TRUE]
UNDEFINED == [undefined |-> TRUE]
Num(n) == [num |-> n]
\* a promise not settled yet, and a rejected one
PENDING == [pending |-> TRUE]
THROWN == [thrown |-> TRUE]

(*************************** bounds of the model ***************************)
\* side of the (square) image container on screen, in CSS pixels
ContainerPx == 8
\* natural width and height of every image, in pixels
ImgW == 4
ImgH == 4
\* calls of one kind that may be in flight together
MaxInFlight == 1
\* bake-ins recorded in one image's pixel data, and baked images held at once
MaxBakes == 1
\* images returned by an AI edit that the component holds at once
MaxEdited == 1
\* tokens of an image prompt
MaxPromptLen == 5
\* largest pan displacement followed, in CSS pixels
MaxPan == 8

(****************************** text helpers *******************************)
RECURSIVE TrimStart(_)
TrimStart(s) == IF s # <<>> /\ Head(s) = " " THEN TrimStart(Tail(s)) ELSE s

RECURSIVE TrimEnd(_)
TrimEnd(s) ==
  IF s # <<>> /\ s[Len(s)] = " " THEN TrimEnd(SubSeq(s, 1, Len(s) - 1)) ELSE s

\* Trim leaving the text as typed
Untrimmed(s) == s

\* String.prototype.trim
Trim(s) == TrimEnd(TrimStart(s))

\* template-literal formatting of a number (or of undefined)
Fmt(v) == IF v = UNDEFINED THEN "undefined" ELSE ToString(v.num)

(**************************** rational helpers *****************************)
RECURSIVE GCD(_, _)
GCD(a, b) == IF b = 0 THEN a ELSE GCD(b, a % b)

Abs(n) == IF n < 0 THEN -n ELSE n

\* n/d in lowest terms with a positive denominator
Rat(n, d) ==
  LET s == IF d < 0 THEN -1 ELSE 1
      g == GCD(Abs(n), Abs(d))
  IN  <<(s * n) \div g, (s * d) \div g>>

RLt(a, b) == a[1] * b[2] < b[1] * a[2]
RLe(a, b) == a[1] * b[2] <= b[1] * a[2]
RAdd(a, b) == Rat(a[1] * b[2] + b[1] * a[2], a[2] * b[2])
RSub(a, b) == Rat(a[1] * b[2] - b[1] * a[2], a[2] * b[2])
RMin(a, b) == IF RLt(b, a) THEN b ELSE a
\* RAbs keeping the sign
RSigned(a) == a
RAbs(a) == <<Abs(a[1]), a[2]>>
\* (a * k) / m
RScale(a, k, m) == Rat(a[1] * k, a[2] * m)
RInt(k) == <<k, 1>>

(******************************** types ************************************)
\* src/types.ts AppState
IDLE == "IDLE"
GENERATING == "GENERATING"
SELECTING == "SELECTING"
EDITING == "EDITING"
VIEWING == "VIEWING"

\* the filter names offered by the filter strip (src/App.tsx line 861)
FilterTypes ==
  {"None", "Grayscale", "Sepia", "Invert", "Vintage", "Cyberpunk", "Solarize",
   "NightVision", "Dramatic", "Dreamy", "Polaroid"}

Origin == [x |-> 0, y |-> 0]

Msg(text) == [message |-> text]
GenerateErrorMsg == Msg("Ocorreu um erro ao gerar as imagens. Tente novamente.")
ReadErrorMsg == Msg("Nao foi possivel ler o arquivo. Tente outra imagem.")
EditErrorMsg == Msg("Erro ao editar a imagem. Tente uma instrucao diferente.")
StyleErrorMsg == Msg("Nao foi possivel processar o estilo descrito.")

VARIABLES
  status, images, selectedImage, prompt, editPrompt, styleDescription,
  imageCaption, error,
  selectedFilter, brightness, contrast, hue, saturation,
  isStyleApplying, showOriginal,
  zoomScale, panOffset, isDragging, dragStart, initialPanOnDrag,
  isSelectionMode, selection, isDrawingSelection, selectionStart,
  generations, fileReads, edits, saves, downloads, styleCalls,
  downloaded, probe

docVars == <<status, images, selectedImage, error>>
textVars == <<prompt, editPrompt, styleDescription, imageCaption>>
adjustVars == <<selectedFilter, brightness, contrast, hue, saturation>>
zoomVars == <<zoomScale, panOffset>>
dragVars == <<isDragging, dragStart, initialPanOnDrag>>
selVars == <<isSelectionMode, selection, isDrawingSelection, selectionStart>>
asyncVars == <<generations, fileReads, edits, saves, downloads, styleCalls>>
vars ==
  <<docVars, textVars, adjustVars, isStyleApplying, showOriginal, zoomVars,
    dragVars, selVars, asyncVars, downloaded, probe>>

(************************* images and pixel data ***************************)
\* A base64 payload stands for the pixels it encodes: a source bitmap
\* (`base`) and the canvas draws baked into it since (`ops`, oldest first).
Payload(base) == [base |-> base, ops |-> <<>>]

\* `data:image/png;base64,${base64}` and the other data URLs
DataUrl(mime, b64) == [mime |-> mime, b64 |-> b64]

\* result.split(',')[1] of a data URL
Base64Of(url) == url.b64

\* GeneratedImage objects as the handlers build them
Image(id, url, b64, p, cap) ==
  [id |-> id, url |-> url, base64 |-> b64, prompt |-> p, caption |-> cap]

\* Date.now() as used in ids: a stamp no live image carries.  Stamps of
\* images that nothing refers to any more are reused, which keeps ids of
\* live images distinct as distinct milliseconds do.
StampsOf(imgs) == {imgs[k].id[2] : k \in DOMAIN imgs}

SelStamp(sel) == IF sel = NULL THEN {} ELSE {sel.id[2]}

LiveStamps ==
  StampsOf(images) \cup SelStamp(selectedImage)
    \cup UNION {StampsOf(edits[k].images) \cup SelStamp(edits[k].selectedImage) :
                  k \in DOMAIN edits}
    \cup UNION {StampsOf(saves[k].images) \cup SelStamp(saves[k].selectedImage) :
                  k \in DOMAIN saves}

DateNow ==
  CHOOSE n \in 0..Cardinality(LiveStamps) :
    n \notin LiveStamps /\ \A m \in 0..(n - 1) : m \in LiveStamps

\* sequence s without its k-th element
Without(s, k) == SubSeq(s, 1, k - 1) \o SubSeq(s, k + 1, Len(s))

(***************************** derived values ******************************)
\* images.findIndex(img => img.id === id), 0-based, -1 when absent
FindIndex(imgs, id) ==
  IF \E k \in DOMAIN imgs : imgs[k].id = id
    THEN (CHOOSE k \in DOMAIN imgs :
            imgs[k].id = id /\ \A m \in 1..(k - 1) : imgs[m].id # id) - 1
    ELSE -1

currentIndex(sel, imgs) == IF sel = NULL THEN -1 ELSE FindIndex(imgs, sel.id)

hasNavigation(sel, imgs) == Len(imgs) > 1 /\ currentIndex(sel, imgs) # -1

\* hasPendingEdits without the comparison of the captions
hasPendingEditsVisualOnly ==
  \/ selectedFilter # "None"
  \/ brightness # Num(100)
  \/ contrast # Num(100)
  \/ hue # Num(0)
  \/ saturation # Num(100)
  \/ selection # NULL

hasPendingEdits ==
  LET visualChanges ==
        \/ selectedFilter # "None"
        \/ brightness # Num(100)
        \/ contrast # Num(100)
        \/ hue # Num(0)
        \/ saturation # Num(100)
      \* selectedImage?.caption !== imageCaption: undefined is no string
      captionChanged ==
        IF selectedImage = NULL THEN TRUE
        ELSE selectedImage.caption # imageCaption
  IN  visualChanges \/ captionChanged \/ selection # NULL

\* the VIEWING section of the page is rendered: its controls can be used
Viewing == status = VIEWING /\ selectedImage # NULL

\* the component never sets isFullScreen to true
isFullScreen == FALSE
zoomSensitivity == 1
panSensitivity == 1

(************************* filter-string composition ***********************)
\* the switch of getFilterString
BaseFilter(filter) ==
  CASE filter = "Grayscale" -> "grayscale(100%)"
    [] filter = "Sepia" -> "sepia(100%)"
    [] filter = "Invert" -> "invert(100%)"
    [] filter = "Vintage" ->
         "sepia(50%) contrast(120%) brightness(90%) hue-rotate(-30deg)"
    [] filter = "Cyberpunk" ->
         "hue-rotate(280deg) saturate(150%) contrast(120%) brightness(110%)"
    [] filter = "Solarize" -> "invert(100%) hue-rotate(180deg)"
    [] filter = "NightVision" ->
         "sepia(100%) hue-rotate(60deg) saturate(300%) brightness(80%)"
    [] filter = "Dramatic" -> "contrast(150%) saturate(50%)"
    [] filter = "Dreamy" -> "brightness(120%) contrast(80%) blur(1px)"
    [] filter = "Polaroid" ->
         "sepia(30%) contrast(110%) brightness(105%) saturate(120%)"
    [] OTHER -> "none"

\* a default parameter value: used when the argument is undefined
OrDefault(arg, def) == IF arg = UNDEFINED THEN def ELSE arg

\* getFilterString without its default parameter values
getFilterStringNoDefaults(filter, b0, c0, h0, s0) ==
  (IF BaseFilter(filter) = "none" THEN "" ELSE BaseFilter(filter) \o " ")
    \o "brightness(" \o Fmt(b0) \o "%) contrast(" \o Fmt(c0)
    \o "%) hue-rotate(" \o Fmt(h0) \o "deg) saturate(" \o Fmt(s0) \o "%)"

getFilterString(filter, b0, c0, h0, s0) ==
  LET b == OrDefault(b0, Num(100))
      c == OrDefault(c0, Num(100))
      h == OrDefault(h0, Num(0))
      s == OrDefault(s0, Num(100))
      baseFilter == BaseFilter(filter)
      brightnessFilter == "brightness(" \o Fmt(b) \o "%)"
      contrastFilter == "contrast(" \o Fmt(c) \o "%)"
      hueFilter == "hue-rotate(" \o Fmt(h) \o "deg)"
      saturateFilter == "saturate(" \o Fmt(s) \o "%)"
  IN  (IF baseFilter = "none" THEN "" ELSE baseFilter \o " ")
        \o brightnessFilter \o " " \o contrastFilter \o " " \o hueFilter
        \o " " \o saturateFilter

\* the switch of getFilterStyle (the earlier revision of the component)
BaseFilterStyle(filter) ==
  CASE filter = "Grayscale" -> "grayscale(100%)"
    [] filter = "Sepia" -> "sepia(100%)"
    [] filter = "Invert" -> "invert(100%)"
    [] filter = "Vintage" ->
         "sepia(50%) contrast(120%) brightness(90%) hue-rotate(-30deg)"
    [] OTHER -> "none"

getFilterStyle(filter, b, c, h, s) ==
  LET baseFilter == BaseFilterStyle(filter)
      brightnessFilter == "brightness(" \o Fmt(b) \o "%)"
      contrastFilter == "contrast(" \o Fmt(c) \o "%)"
      hueFilter == "hue-rotate(" \o Fmt(h) \o "deg)"
      saturateFilter == "saturate(" \o Fmt(s) \o "%)"
  IN  (IF baseFilter = "none" THEN "" ELSE baseFilter \o " ")
        \o brightnessFilter \o " " \o contrastFilter \o " " \o hueFilter
        \o " " \o saturateFilter

(************************ the generative service ***************************)
\* A response of ai.models.generateContent: the call is rejected, or it
\* yields response.candidates?.[0]?.content?.parts || [] (`parts`).
Response(rejected, parts) == [rejected |-> rejected, parts |-> parts]
TextPart == [inlineData |-> NULL]
InlinePart(data) == [inlineData |-> [data |-> data]]

\* the loop over the parts shared by the three image functions
RECURSIVE FirstInlineImage(_)
FirstInlineImage(parts) ==
  IF parts = <<>> THEN THROWN
  ELSE IF Head(parts).inlineData # NULL
    THEN LET base64 == Head(parts).inlineData.data
         IN  [url |-> DataUrl("image/png", base64), base64 |-> base64]
    ELSE FirstInlineImage(Tail(parts))

generateSingleImage(response) ==
  IF response.rejected THEN THROWN ELSE FirstInlineImage(response.parts)

editImage(response) ==
  IF response.rejected THEN THROWN ELSE FirstInlineImage(response.parts)

resizeImage(response) ==
  IF response.rejected THEN THROWN ELSE FirstInlineImage(response.parts)

(******************************** inputs ***********************************)
\* what the user types
Texts == {<<>>, <<" ">>, <<"a">>}
Captions == {<<>>, <<"note">>}

\* image payloads the service returns
ServiceData == {Payload("ai1"), Payload("ai2")}

ImageResponses ==
  {Response(TRUE, <<>>), Response(FALSE, <<>>), Response(FALSE, <<TextPart>>)}
    \cup {Response(FALSE, <<TextPart, InlinePart(d)>>) : d \in ServiceData}

\* the files the user picks: one that cannot be read, one read as an empty
\* result, one read as a data URL
Files ==
  {[fails |-> TRUE, result |-> NULL], [fails |-> FALSE, result |-> NULL],
   [fails |-> FALSE, result |-> DataUrl("image/jpeg", Payload("file"))]}

(***************************** initial state *******************************)
OneX == 200

\* the state after the first render, the probe aside
AppInit ==
  /\ status = IDLE
  /\ images = <<>>
  /\ selectedImage = NULL
  /\ prompt = <<>>
  /\ editPrompt = <<>>
  /\ styleDescription = <<>>
  /\ imageCaption = <<>>
  /\ error = NULL
  /\ selectedFilter = "None"
  /\ brightness = Num(100)
  /\ contrast = Num(100)
  /\ hue = Num(0)
  /\ saturation = Num(100)
  /\ isStyleApplying = FALSE
  /\ showOriginal = FALSE
  /\ zoomScale = OneX
  /\ panOffset = Origin
  /\ isDragging = FALSE
  /\ dragStart = Origin
  /\ initialPanOnDrag = Origin
  /\ isSelectionMode = FALSE
  /\ selection = NULL
  /\ isDrawingSelection = FALSE
  /\ selectionStart = [x |-> RInt(0), y |-> RInt(0)]
  /\ generations = <<>>
  /\ fileReads = <<>>
  /\ edits = <<>>
  /\ saves = <<>>
  /\ downloads = <<>>
  /\ styleCalls = <<>>
  /\ downloaded = NULL

Init == AppInit /\ probe = NULL

(************************ shared handler fragments *************************)
\* resetEditSliders leaving the filter card as chosen
resetEditSlidersKeepingFilter ==
  /\ UNCHANGED selectedFilter
  /\ brightness' = Num(100)
  /\ contrast' = Num(100)
  /\ hue' = Num(0)
  /\ saturation' = Num(100)
  /\ zoomScale' = OneX
  /\ panOffset' = Origin
  /\ selection' = NULL

\* resetEditSliders leaving the saturation slider where it is
resetEditSlidersKeepingSaturation ==
  /\ selectedFilter' = "None"
  /\ brightness' = Num(100)
  /\ contrast' = Num(100)
  /\ hue' = Num(0)
  /\ UNCHANGED saturation
  /\ zoomScale' = OneX
  /\ panOffset' = Origin
  /\ selection' = NULL

resetEditSliders ==
  /\ selectedFilter' = "None"
  /\ brightness' = Num(100)
  /\ contrast' = Num(100)
  /\ hue' = Num(0)
  /\ saturation' = Num(100)
  /\ zoomScale' = OneX
  /\ panOffset' = Origin
  /\ selection' = NULL

\* selectedImage?.caption || ''
CaptionOrEmpty(img) == IF img = NULL THEN <<>> ELSE img.caption

\* OnSelectedImageChange without loading the caption of the new image
OnSelectedImageChangeKeepingCaption(img) ==
  /\ zoomScale' = OneX
  /\ panOffset' = Origin
  /\ selection' = NULL
  /\ isSelectionMode' = FALSE
  /\ showOriginal' = FALSE
  /\ UNCHANGED imageCaption

\* the effect run when selectedImage has changed to `img`
OnSelectedImageChange(img) ==
  /\ zoomScale' = OneX
  /\ panOffset' = Origin
  /\ selection' = NULL
  /\ isSelectionMode' = FALSE
  /\ showOriginal' = FALSE
  /\ imageCaption' = CaptionOrEmpty(img)

\* setSelectedImage(img) by a handler that also calls resetEditSliders;
\* `changed`: img is another object than the selected one
setSelectedImage(img, changed) ==
  /\ selectedImage' = img
  /\ IF changed THEN OnSelectedImageChange(img)
     ELSE UNCHANGED <<isSelectionMode, showOriginal, imageCaption>>

(************************** creating and importing *************************)
setPrompt(text) ==
  /\ status = IDLE
  /\ prompt' = text
  /\ UNCHANGED <<docVars, editPrompt, styleDescription, imageCaption,
                 adjustVars, isStyleApplying, showOriginal, zoomVars, dragVars,
                 selVars, asyncVars, downloaded, probe>>

\* handleGenerate up to its await
handleGenerate ==
  /\ status = IDLE
  /\ IF Trim(prompt) = <<>> THEN UNCHANGED vars
     ELSE /\ Len(generations) < MaxInFlight
          /\ error' = NULL
          /\ status' = GENERATING
          /\ images' = <<>>
          /\ setSelectedImage(NULL, selectedImage # NULL)
          /\ resetEditSliders
          /\ generations' =
               Append(generations,
                      [prompt |-> prompt,
                       calls |-> [k \in 1..3 |->
                                    [variationIndex |-> k - 1,
                                     result |-> PENDING]]])
          /\ UNCHANGED <<prompt, editPrompt, styleDescription, isStyleApplying,
                         dragVars, isDrawingSelection, selectionStart,
                         fileReads, edits, saves, downloads, styleCalls,
                         downloaded, probe>>

\* NewImages taking the results in the opposite order
NewImagesReversed(gen, results, now) ==
  [k \in 1..3 |->
     Image(<<"img", now, k - 1>>, results[4 - k].url, results[4 - k].base64,
           gen.prompt, <<>>)]

\* the images handleGenerate builds from the three results
NewImages(gen, results, now) ==
  [k \in 1..3 |->
     Image(<<"img", now, k - 1>>, results[k].url, results[k].base64,
           gen.prompt, <<>>)]

\* one generateSingleImage call of generation g settles, and with it
\* possibly Promise.all and the rest of handleGenerate
GenerateSettle(g, k, response) ==
  /\ g \in DOMAIN generations
  /\ generations[g].calls[k].result = PENDING
  /\ LET gen == generations[g]
         r == generateSingleImage(response)
         calls == [gen.calls EXCEPT ![k].result = r]
     IN  IF r = THROWN
           THEN /\ error' = GenerateErrorMsg
                /\ status' = IDLE
                /\ generations' = Without(generations, g)
                /\ UNCHANGED <<images, selectedImage>>
         ELSE IF \A j \in 1..3 : calls[j].result # PENDING
           THEN /\ images' =
                     NewImages(gen, [j \in 1..3 |-> calls[j].result], DateNow)
                /\ status' = SELECTING
                /\ generations' = Without(generations, g)
                /\ UNCHANGED <<error, selectedImage>>
         ELSE /\ generations' = [generations EXCEPT ![g].calls = calls]
              /\ UNCHANGED docVars
  /\ UNCHANGED <<textVars, adjustVars, isStyleApplying, showOriginal, zoomVars,
                 dragVars, selVars, fileReads, edits, saves, downloads,
                 styleCalls, downloaded, probe>>

\* handleFileChange: the reader is started when a file was picked
handleFileChange(files) ==
  /\ status = IDLE
  /\ IF files = <<>> THEN UNCHANGED vars
     ELSE /\ Len(fileReads) < MaxInFlight
          /\ fileReads' = Append(fileReads, files[1])
          /\ UNCHANGED <<docVars, textVars, adjustVars, isStyleApplying,
                         showOriginal, zoomVars, dragVars, selVars,
                         generations, edits, saves, downloads, styleCalls,
                         downloaded, probe>>

\* reader.onload
FileLoad(f) ==
  /\ f \in DOMAIN fileReads
  /\ ~fileReads[f].fails
  /\ fileReads' = Without(fileReads, f)
  /\ LET result == fileReads[f].result
         importedImg ==
           Image(<<"imported", DateNow, 0>>, result, Base64Of(result),
                 <<"Imagem importada">>, <<>>)
     IN  IF result # NULL
           THEN /\ setSelectedImage(importedImg, TRUE)
                /\ images' = <<>>
                /\ resetEditSliders
                /\ status' = VIEWING
           ELSE UNCHANGED <<status, images, selectedImage, imageCaption,
                            adjustVars, showOriginal, zoomVars, isSelectionMode,
                            selection>>
  /\ UNCHANGED <<error, prompt, editPrompt, styleDescription, isStyleApplying,
                 dragVars, isDrawingSelection, selectionStart, generations,
                 edits, saves, downloads, styleCalls, downloaded, probe>>

\* reader.onerror
FileError(f) ==
  /\ f \in DOMAIN fileReads
  /\ fileReads[f].fails
  /\ fileReads' = Without(fileReads, f)
  /\ error' = ReadErrorMsg
  /\ UNCHANGED <<status, images, selectedImage, textVars, adjustVars,
                 isStyleApplying, showOriginal, zoomVars, dragVars, selVars,
                 generations, edits, saves, downloads, styleCalls, downloaded,
                 probe>>

(************************* selecting and navigating ************************)
handleSelect(img) ==
  /\ status = SELECTING
  /\ setSelectedImage(img, img # selectedImage)
  /\ resetEditSliders
  /\ status' = VIEWING
  /\ UNCHANGED <<images, error, prompt, editPrompt, styleDescription,
                 isStyleApplying, dragVars, isDrawingSelection, selectionStart,
                 asyncVars, downloaded, probe>>

\* newIndex turning back at the ends of the list
newIndexTurning(direction, idx, length) ==
  LET stepped == IF direction = "next" THEN idx + 1 ELSE idx - 1
  IN  IF stepped >= length THEN length - 2
      ELSE IF stepped < 0 THEN 1 ELSE stepped

\* the 0-based index navigateImages moves to
newIndex(direction, idx, length) ==
  LET stepped == IF direction = "next" THEN idx + 1 ELSE idx - 1
      wrapped == IF stepped >= length THEN 0 ELSE stepped
  IN  IF wrapped < 0 THEN length - 1 ELSE wrapped

navigateImages(direction) ==
  /\ status = VIEWING
  /\ IF ~hasNavigation(selectedImage, images) THEN UNCHANGED vars
     ELSE LET idx == currentIndex(selectedImage, images)
              to == images[newIndex(direction, idx, Len(images)) + 1]
          IN  /\ setSelectedImage(to, to # selectedImage)
              /\ resetEditSliders
              /\ UNCHANGED <<status, images, error, prompt, editPrompt,
                             styleDescription, isStyleApplying, dragVars,
                             isDrawingSelection, selectionStart, asyncVars,
                             downloaded, probe>>

reset ==
  /\ status \in {SELECTING, VIEWING}
  /\ status' = IDLE
  /\ prompt' = <<>>
  /\ images' = <<>>
  /\ selectedImage' = NULL
  /\ resetEditSliders
  /\ imageCaption' = <<>>
  /\ error' = NULL
  /\ IF selectedImage # NULL THEN OnSelectedImageChange(NULL)
     ELSE UNCHANGED <<isSelectionMode, showOriginal>>
  /\ UNCHANGED <<editPrompt, styleDescription, isStyleApplying, dragVars,
                 isDrawingSelection, selectionStart, asyncVars, downloaded,
                 probe>>

(***************************** the 2D canvas *******************************)
\* blur radius of a preset, in pixels (only Dreamy has a blur(1px))
PresetBlurPx(filter) == IF filter = "Dreamy" THEN 1 ELSE 0

\* A filter string the canvas cannot parse (a negative percentage) leaves
\* ctx.filter at its initial "none".
CanvasFilter(filter, b, c, h, s) ==
  LET ok(v, def) == OrDefault(v, def).num >= 0
  IN  IF ok(b, Num(100)) /\ ok(c, Num(100)) /\ ok(s, Num(100))
        THEN getFilterString(filter, b, c, h, s)
        ELSE "none"

\* filter strings that leave every pixel as it is
IdentityFilter(css) ==
  css \in {"none", getFilterString("None", UNDEFINED, UNDEFINED, UNDEFINED,
                                   UNDEFINED)}

\* the source = destination rectangle computed from a selection
SelectionRectPx(sel, width, height) ==
  [sx |-> RScale(sel.x, width, 100),
   sy |-> RScale(sel.y, height, 100),
   sw |-> RScale(sel.width, width, 100),
   sh |-> RScale(sel.height, height, 100)]

WholeImage == [sx |-> RInt(0), sy |-> RInt(0), sw |-> RInt(ImgW), sh |-> RInt(ImgH)]

\* The filtered drawImage of handleSaveEdits / handleDownload on top of the
\* unfiltered copy of the image: ctx.filter, the preset's blur and the
\* rectangle drawn, for the adjustments and selection of closure c.
FilteredDraw(c) ==
  LET css == CanvasFilter(c.selectedFilter, c.brightness, c.contrast, c.hue,
                          c.saturation)
  IN  [css |-> css,
       blur |-> IF css = "none" THEN 0 ELSE PresetBlurPx(c.selectedFilter),
       rect |-> IF c.selection # NULL
                  THEN SelectionRectPx(c.selection, ImgW, ImgH)
                  ELSE WholeImage,
       local |-> c.selection # NULL]

\* canvas pixels after drawing the decoded image and then `draw` over it
Bake(payload, draw) ==
  IF \/ IdentityFilter(draw.css)
     \/ RLe(draw.rect.sw, RInt(0))
     \/ RLe(draw.rect.sh, RInt(0))
    THEN payload
    ELSE [payload EXCEPT !.ops = Append(@, draw)]

\* How far outside the rectangle drawn a blur of sigma px changes pixels
BlurReachPx(blur) == 3 * blur

\* How a draw covers the pixel square [i, i+1) x [j, j+1): "full" when the
\* square lies inside the rectangle and beyond the reach of its blurred
\* edge, "none" when it lies outside the rectangle grown by that reach,
\* "part" otherwise (the pixel is blended with what was under it).
Coverage(draw, i, j) ==
  LET r == RInt(BlurReachPx(draw.blur))
      x0 == draw.rect.sx
      x1 == RAdd(draw.rect.sx, draw.rect.sw)
      y0 == draw.rect.sy
      y1 == RAdd(draw.rect.sy, draw.rect.sh)
      lo(k) == RInt(k)
      hi(k) == RInt(k + 1)
  IN  IF \/ RLe(hi(i), RSub(x0, r)) \/ RLe(RAdd(x1, r), lo(i))
         \/ RLe(hi(j), RSub(y0, r)) \/ RLe(RAdd(y1, r), lo(j))
        THEN "none"
      ELSE IF /\ RLe(RAdd(x0, r), lo(i)) /\ RLe(hi(i), RSub(x1, r))
              /\ RLe(RAdd(y0, r), lo(j)) /\ RLe(hi(j), RSub(y1, r))
        THEN "full"
      ELSE "part"

\* the pixel (i, j) a payload encodes
RECURSIVE PixelOf(_, _, _, _)
PixelOf(base, ops, i, j) ==
  IF ops = <<>> THEN [source |-> base, at |-> <<i, j>>]
  ELSE LET draw == ops[Len(ops)]
           under == PixelOf(base, SubSeq(ops, 1, Len(ops) - 1), i, j)
           cov == Coverage(draw, i, j)
       IN  IF cov = "none" THEN under
           ELSE [filter |-> draw.css, under |-> under, blended |-> cov = "part",
                 px |-> <<i, j>>]

Pixel(payload, i, j) == PixelOf(payload.base, payload.ops, i, j)

(************************** saving and downloading *************************)
\* the values of the render whose handler was invoked
Closure ==
  [selectedImage |-> selectedImage, images |-> images,
   imageCaption |-> imageCaption, editPrompt |-> editPrompt,
   selectedFilter |-> selectedFilter, brightness |-> brightness,
   contrast |-> contrast, hue |-> hue, saturation |-> saturation,
   selection |-> selection]

\* the images held by the component that carry baked-in draws
BakedImages ==
  {img \in {images[k] : k \in DOMAIN images}
             \cup (IF selectedImage = NULL THEN {} ELSE {selectedImage}) :
     img.url.b64.ops # <<>>}

\* handleSaveEdits up to img.onload
handleSaveEdits ==
  /\ status = VIEWING
  /\ IF selectedImage = NULL THEN UNCHANGED vars
     ELSE /\ Len(saves) < MaxInFlight
          /\ Len(selectedImage.url.b64.ops) < MaxBakes
          /\ Cardinality(BakedImages) < MaxBakes
          /\ status' = EDITING
          /\ saves' = Append(saves, Closure)
          /\ UNCHANGED <<images, selectedImage, error, textVars, adjustVars,
                         isStyleApplying, showOriginal, zoomVars, dragVars,
                         selVars, generations, fileReads, edits, downloads,
                         styleCalls, downloaded, probe>>

\* ReplaceAt writing to the entry after the one found
ReplaceAtNext(imgs, idx, img) ==
  IF idx # -1 THEN [imgs EXCEPT ![idx + 2] = img] ELSE imgs

\* images with the entry at 0-based index idx replaced, when idx is not -1
ReplaceAt(imgs, idx, img) ==
  IF idx # -1 THEN [imgs EXCEPT ![idx + 1] = img] ELSE imgs

\* img.onload of handleSaveEdits
SaveLoad(k) ==
  /\ k \in DOMAIN saves
  /\ LET c == saves[k]
         baked == Bake(c.selectedImage.url.b64, FilteredDraw(c))
         newUrl == DataUrl("image/png", baked)
         newBase64 == Base64Of(newUrl)
         updatedImage ==
           [c.selectedImage EXCEPT
              !.base64 = newBase64, !.url = newUrl, !.caption = c.imageCaption]
         idx == currentIndex(c.selectedImage, c.images)
     IN  /\ IF idx # -1 THEN images' = ReplaceAt(c.images, idx, updatedImage)
            ELSE UNCHANGED images
         /\ setSelectedImage(updatedImage, TRUE)
         /\ resetEditSliders
         /\ status' = VIEWING
  /\ saves' = Without(saves, k)
  /\ UNCHANGED <<error, prompt, editPrompt, styleDescription, isStyleApplying,
                 dragVars, isDrawingSelection, selectionStart, generations,
                 fileReads, edits, downloads, styleCalls, downloaded, probe>>

\* handleDownload up to img.onload
handleDownload ==
  /\ status = VIEWING
  /\ IF selectedImage = NULL THEN UNCHANGED vars
     ELSE /\ Len(downloads) < MaxInFlight
          /\ downloads' = Append(downloads, Closure)
          /\ UNCHANGED <<docVars, textVars, adjustVars, isStyleApplying,
                         showOriginal, zoomVars, dragVars, selVars,
                         generations, fileReads, edits, saves, styleCalls,
                         downloaded, probe>>

\* img.onload of handleDownload: the file handed to the browser
DownloadLoad(k) ==
  /\ k \in DOMAIN downloads
  /\ LET c == downloads[k]
     IN  downloaded' =
           DataUrl("image/png", Bake(c.selectedImage.url.b64, FilteredDraw(c)))
  /\ downloads' = Without(downloads, k)
  /\ UNCHANGED <<docVars, textVars, adjustVars, isStyleApplying, showOriginal,
                 zoomVars, dragVars, selVars, generations, fileReads, edits,
                 saves, styleCalls, probe>>

(******************************** AI edit **********************************)
setEditPrompt(text) ==
  /\ Viewing
  /\ editPrompt' = text
  /\ UNCHANGED <<docVars, prompt, styleDescription, imageCaption, adjustVars,
                 isStyleApplying, showOriginal, zoomVars, dragVars, selVars,
                 asyncVars, downloaded, probe>>

\* `${selectedImage.prompt} + ${editPrompt}`
\* EditedPrompt with the instruction first
EditedPromptSwapped(old, instruction) == instruction \o <<" ", "+", " ">> \o old
EditedPrompt(old, instruction) == old \o <<" ", "+", " ">> \o instruction

\* the images held by the component that an AI edit returned
EditedImages ==
  {img \in {images[k] : k \in DOMAIN images}
             \cup (IF selectedImage = NULL THEN {} ELSE {selectedImage}) :
     img.id[1] = "edit"}

\* handleEdit up to its await
handleEdit ==
  /\ status = VIEWING
  /\ IF selectedImage = NULL \/ Trim(editPrompt) = <<>> THEN UNCHANGED vars
     ELSE /\ Len(edits) < MaxInFlight
          /\ Len(EditedPrompt(selectedImage.prompt, editPrompt)) <= MaxPromptLen
          /\ Cardinality(EditedImages) < MaxEdited
          /\ error' = NULL
          /\ status' = EDITING
          /\ edits' = Append(edits, Closure)
          /\ UNCHANGED <<images, selectedImage, textVars, adjustVars,
                         isStyleApplying, showOriginal, zoomVars, dragVars,
                         selVars, generations, fileReads, saves, downloads,
                         styleCalls, downloaded, probe>>

\* EditSettle emptying the edit prompt when the call has failed too
EditSettleClearing(k, response) ==
  /\ k \in DOMAIN edits
  /\ edits' = Without(edits, k)
  /\ LET c == edits[k]
         result == editImage(response)
         updatedImage ==
           Image(<<"edit", DateNow, 0>>, result.url, result.base64,
                 EditedPrompt(c.selectedImage.prompt, c.editPrompt),
                 c.imageCaption)
         idx == currentIndex(c.selectedImage, c.images)
     IN  IF result = THROWN
           THEN /\ error' = EditErrorMsg
                /\ status' = VIEWING
                /\ editPrompt' = <<>>
                /\ UNCHANGED <<images, selectedImage, prompt, styleDescription,
                               imageCaption, adjustVars, showOriginal,
                               zoomVars, isSelectionMode, selection>>
           ELSE /\ IF idx # -1
                     THEN images' = ReplaceAt(c.images, idx, updatedImage)
                     ELSE UNCHANGED images
                /\ setSelectedImage(updatedImage, TRUE)
                /\ editPrompt' = <<>>
                /\ resetEditSliders
                /\ status' = VIEWING
                /\ UNCHANGED <<error, prompt, styleDescription>>
  /\ UNCHANGED <<isStyleApplying, dragVars, isDrawingSelection, selectionStart,
                 generations, fileReads, saves, downloads, styleCalls,
                 downloaded, probe>>

\* the editImage call of edit k settles, and the rest of handleEdit runs
EditSettle(k, response) ==
  /\ k \in DOMAIN edits
  /\ edits' = Without(edits, k)
  /\ LET c == edits[k]
         result == editImage(response)
         updatedImage ==
           Image(<<"edit", DateNow, 0>>, result.url, result.base64,
                 EditedPrompt(c.selectedImage.prompt, c.editPrompt),
                 c.imageCaption)
         idx == currentIndex(c.selectedImage, c.images)
     IN  IF result = THROWN
           THEN /\ error' = EditErrorMsg
                /\ status' = VIEWING
                /\ UNCHANGED <<images, selectedImage, textVars, adjustVars,
                               showOriginal, zoomVars, isSelectionMode,
                               selection>>
           ELSE /\ IF idx # -1
                     THEN images' = ReplaceAt(c.images, idx, updatedImage)
                     ELSE UNCHANGED images
                /\ setSelectedImage(updatedImage, TRUE)
                /\ editPrompt' = <<>>
                /\ resetEditSliders
                /\ status' = VIEWING
                /\ UNCHANGED <<error, prompt, styleDescription>>
  /\ UNCHANGED <<isStyleApplying, dragVars, isDrawingSelection, selectionStart,
                 generations, fileReads, saves, downloads, styleCalls,
                 downloaded, probe>>

(***************************** visual adjustments *************************)
setSelectedFilter(f) ==
  /\ Viewing
  /\ selectedFilter' = f
  /\ UNCHANGED <<docVars, textVars, brightness, contrast, hue, saturation,
                 isStyleApplying, showOriginal, zoomVars, dragVars, selVars,
                 asyncVars, downloaded, probe>>

\* the four range inputs: s.set(parseInt(e.target.value))
setBrightness(v) ==
  /\ Viewing
  /\ brightness' = v
  /\ UNCHANGED <<docVars, textVars, selectedFilter, contrast, hue, saturation,
                 isStyleApplying, showOriginal, zoomVars, dragVars, selVars,
                 asyncVars, downloaded, probe>>

setContrast(v) ==
  /\ Viewing
  /\ contrast' = v
  /\ UNCHANGED <<docVars, textVars, selectedFilter, brightness, hue,
                 saturation, isStyleApplying, showOriginal, zoomVars, dragVars,
                 selVars, asyncVars, downloaded, probe>>

setHue(v) ==
  /\ Viewing
  /\ hue' = v
  /\ UNCHANGED <<docVars, textVars, selectedFilter, brightness, contrast,
                 saturation, isStyleApplying, showOriginal, zoomVars, dragVars,
                 selVars, asyncVars, downloaded, probe>>

setSaturation(v) ==
  /\ Viewing
  /\ saturation' = v
  /\ UNCHANGED <<docVars, textVars, selectedFilter, brightness, contrast, hue,
                 isStyleApplying, showOriginal, zoomVars, dragVars, selVars,
                 asyncVars, downloaded, probe>>

\* setImageCaption writing the caption into the stored image as well
setImageCaptionStored(text) ==
  /\ Viewing
  /\ imageCaption' = text
  /\ selectedImage' =
       IF selectedImage = NULL THEN NULL
       ELSE [selectedImage EXCEPT !.caption = text]
  /\ UNCHANGED <<status, images, error, prompt, editPrompt, styleDescription,
                 adjustVars, isStyleApplying, showOriginal, zoomVars, dragVars,
                 selVars, asyncVars, downloaded, probe>>

setImageCaption(text) ==
  /\ Viewing
  /\ imageCaption' = text
  /\ UNCHANGED <<docVars, prompt, editPrompt, styleDescription, adjustVars,
                 isStyleApplying, showOriginal, zoomVars, dragVars, selVars,
                 asyncVars, downloaded, probe>>

\* the compare button: pressed (true) and released (false)
setShowOriginal(held) ==
  /\ Viewing
  /\ showOriginal' = held
  /\ UNCHANGED <<docVars, textVars, adjustVars, isStyleApplying, zoomVars,
                 dragVars, selVars, asyncVars, downloaded, probe>>

(**************************** style by description *************************)
setStyleDescription(text) ==
  /\ Viewing
  /\ styleDescription' = text
  /\ UNCHANGED <<docVars, prompt, editPrompt, imageCaption, adjustVars,
                 isStyleApplying, showOriginal, zoomVars, dragVars, selVars,
                 asyncVars, downloaded, probe>>

\* A response of the text model: rejected, or response.text, which is
\* NULL (empty), a JSON object (`json`) or text that is no JSON.
StyleResponse(rejected, text) == [rejected |-> rejected, text |-> text]
NotJson == [garbage |-> TRUE]
Json(f, b, c, h, s) ==
  [json |-> [filter |-> f, brightness |-> b, contrast |-> c, hue |-> h,
             saturation |-> s]]

\* JSON.parse(response.text || "{}")
applyStyleByDescription(response) ==
  IF response.rejected \/ response.text = NotJson THEN THROWN
  ELSE IF response.text = NULL
    THEN [filter |-> "undefined", brightness |-> UNDEFINED,
          contrast |-> UNDEFINED, hue |-> UNDEFINED, saturation |-> UNDEFINED]
  ELSE response.text.json

StyleResponses ==
  {StyleResponse(TRUE, NULL), StyleResponse(FALSE, NULL),
   StyleResponse(FALSE, NotJson),
   StyleResponse(FALSE, Json("Sepia", Num(120), Num(90), Num(30), Num(110))),
   StyleResponse(FALSE, Json("Dreamy", Num(250), Num(100), Num(0), Num(100)))}

\* handleApplyStyle up to its await
handleApplyStyle ==
  /\ Viewing
  /\ IF Trim(styleDescription) = <<>> THEN UNCHANGED vars
     ELSE /\ Len(styleCalls) < MaxInFlight
          /\ error' = NULL
          /\ isStyleApplying' = TRUE
          /\ styleCalls' = Append(styleCalls, [description |-> styleDescription])
          /\ UNCHANGED <<status, images, selectedImage, textVars, adjustVars,
                         showOriginal, zoomVars, dragVars, selVars,
                         generations, fileReads, edits, saves, downloads,
                         downloaded, probe>>

\* the applyStyleByDescription call settles: try, catch and finally
StyleSettle(k, response) ==
  /\ k \in DOMAIN styleCalls
  /\ styleCalls' = Without(styleCalls, k)
  /\ LET params == applyStyleByDescription(response)
     IN  IF params = THROWN
           THEN /\ error' = StyleErrorMsg
                /\ UNCHANGED <<adjustVars, styleDescription>>
           ELSE /\ selectedFilter' = params.filter
                /\ brightness' = params.brightness
                /\ contrast' = params.contrast
                /\ hue' = params.hue
                /\ saturation' = params.saturation
                /\ styleDescription' = <<>>
                /\ UNCHANGED error
  /\ isStyleApplying' = FALSE
  /\ UNCHANGED <<status, images, selectedImage, prompt, editPrompt,
                 imageCaption, showOriginal, zoomVars, dragVars, selVars,
                 generations, fileReads, edits, saves, downloads, downloaded,
                 probe>>

(******************************** zoom *************************************)
ZoomMin == 100
ZoomMax == 2000
DefaultStep == 40

Min(a, b) == IF a < b THEN a ELSE b
Max(a, b) == IF a > b THEN a ELSE b

\* ClampZoom with the lower limit forgotten
ClampZoomNoFloor(next) == Min(next, ZoomMax)

\* Math.min(Math.max(next, 0.5), 10)
ClampZoom(next) == Min(Max(next, ZoomMin), ZoomMax)

handleZoom(direction, customStep) ==
  /\ Viewing
  /\ LET step == IF customStep # UNDEFINED THEN customStep.num
                 ELSE DefaultStep * zoomSensitivity
         next == IF direction = "in" THEN zoomScale + step ELSE zoomScale - step
     IN  zoomScale' = ClampZoom(next)
  /\ UNCHANGED <<docVars, textVars, adjustVars, isStyleApplying, showOriginal,
                 panOffset, dragVars, selVars, asyncVars, downloaded, probe>>

handleWheel(deltaY, ctrlKey, metaKey) ==
  /\ Viewing
  /\ IF ctrlKey \/ metaKey \/ isFullScreen
       THEN LET delta == (- deltaY) * zoomSensitivity
            IN  zoomScale' = ClampZoom(zoomScale + delta)
       ELSE UNCHANGED zoomScale
  /\ UNCHANGED <<docVars, textVars, adjustVars, isStyleApplying, showOriginal,
                 panOffset, dragVars, selVars, asyncVars, downloaded, probe>>

resetZoom ==
  /\ Viewing
  /\ zoomScale' = OneX
  /\ panOffset' = Origin
  /\ UNCHANGED <<docVars, textVars, adjustVars, isStyleApplying, showOriginal,
                 dragVars, selVars, asyncVars, downloaded, probe>>

(************************** pointer and selection **************************)
\* displayImageRef.current.getBoundingClientRect(): the image fills the
\* container (at 0,0, ContainerPx wide and high) and is transformed by
\* translate(panOffset) scale(zoomScale) about its centre.
BoundingClientRect ==
  LET width == Rat(zoomScale * ContainerPx, OneX)
      height == Rat(zoomScale * ContainerPx, OneX)
      half == RScale(RInt(ContainerPx), 1, 2)
  IN  [left |-> RSub(RAdd(half, RInt(panOffset.x)), RScale(width, 1, 2)),
       top |-> RSub(RAdd(half, RInt(panOffset.y)), RScale(height, 1, 2)),
       width |-> width, height |-> height]

\* ((client - origin) / extent) * 100
Percent(client, origin, extent) ==
  LET d == RSub(RInt(client), origin)
  IN  Rat(d[1] * extent[2] * 100, d[2] * extent[1])

handleMouseDown(clientX, clientY) ==
  /\ Viewing
  /\ IF isSelectionMode
       THEN LET rect == BoundingClientRect
                x == Percent(clientX, rect.left, rect.width)
                y == Percent(clientY, rect.top, rect.height)
            IN  /\ isDrawingSelection' = TRUE
                /\ selectionStart' = [x |-> x, y |-> y]
                /\ selection' =
                     [x |-> x, y |-> y, width |-> RInt(0), height |-> RInt(0)]
                /\ UNCHANGED <<isSelectionMode, dragVars>>
     ELSE IF zoomScale > OneX
       THEN /\ isDragging' = TRUE
            /\ dragStart' = [x |-> clientX, y |-> clientY]
            /\ initialPanOnDrag' = [x |-> panOffset.x, y |-> panOffset.y]
            /\ UNCHANGED selVars
     ELSE UNCHANGED <<selVars, dragVars>>
  /\ UNCHANGED <<docVars, textVars, adjustVars, isStyleApplying, showOriginal,
                 zoomVars, asyncVars, downloaded, probe>>

\* handleMouseMove forgetting the pan the drag started from
handleMouseMoveFromOrigin(clientX, clientY) ==
  /\ Viewing
  /\ IF isDrawingSelection /\ isSelectionMode
       THEN LET rect == BoundingClientRect
                currentX == Percent(clientX, rect.left, rect.width)
                currentY == Percent(clientY, rect.top, rect.height)
                x == RMin(currentX, selectionStart.x)
                y == RMin(currentY, selectionStart.y)
                width == RAbs(RSub(currentX, selectionStart.x))
                height == RAbs(RSub(currentY, selectionStart.y))
            IN  /\ selection' =
                     [x |-> x, y |-> y, width |-> width, height |-> height]
                /\ UNCHANGED panOffset
     ELSE IF isDragging /\ zoomScale > OneX
       THEN LET deltaX == (clientX - dragStart.x) * panSensitivity
                deltaY == (clientY - dragStart.y) * panSensitivity
            IN  /\ panOffset' = [x |-> deltaX, y |-> deltaY]
                /\ Abs(panOffset'.x) <= MaxPan
                /\ Abs(panOffset'.y) <= MaxPan
                /\ UNCHANGED selection
     ELSE UNCHANGED <<selection, panOffset>>
  /\ UNCHANGED <<docVars, textVars, adjustVars, isStyleApplying, showOriginal,
                 zoomScale, dragVars, isSelectionMode, isDrawingSelection,
                 selectionStart, asyncVars, downloaded, probe>>

handleMouseMove(clientX, clientY) ==
  /\ Viewing
  /\ IF isDrawingSelection /\ isSelectionMode
       THEN LET rect == BoundingClientRect
                currentX == Percent(clientX, rect.left, rect.width)
                currentY == Percent(clientY, rect.top, rect.height)
                x == RMin(currentX, selectionStart.x)
                y == RMin(currentY, selectionStart.y)
                width == RAbs(RSub(currentX, selectionStart.x))
                height == RAbs(RSub(currentY, selectionStart.y))
            IN  /\ selection' =
                     [x |-> x, y |-> y, width |-> width, height |-> height]
                /\ UNCHANGED panOffset
     ELSE IF isDragging /\ zoomScale > OneX
       THEN LET deltaX == (clientX - dragStart.x) * panSensitivity
                deltaY == (clientY - dragStart.y) * panSensitivity
            IN  /\ panOffset' = [x |-> initialPanOnDrag.x + deltaX,
                                 y |-> initialPanOnDrag.y + deltaY]
                /\ Abs(panOffset'.x) <= MaxPan
                /\ Abs(panOffset'.y) <= MaxPan
                /\ UNCHANGED selection
     ELSE UNCHANGED <<selection, panOffset>>
  /\ UNCHANGED <<docVars, textVars, adjustVars, isStyleApplying, showOriginal,
                 zoomScale, dragVars, isSelectionMode, isDrawingSelection,
                 selectionStart, asyncVars, downloaded, probe>>

\* handleMouseUp looking at the height of the rectangle only
handleMouseUpByHeight ==
  /\ Viewing
  /\ IF isDrawingSelection
       THEN /\ isDrawingSelection' = FALSE
            /\ IF selection # NULL
                  /\ RLt(selection.height, RInt(1))
                 THEN selection' = NULL /\ UNCHANGED isSelectionMode
               ELSE IF selection # NULL
                 THEN isSelectionMode' = FALSE /\ UNCHANGED selection
               ELSE UNCHANGED <<selection, isSelectionMode>>
       ELSE UNCHANGED <<isDrawingSelection, selection, isSelectionMode>>
  /\ isDragging' = FALSE
  /\ UNCHANGED <<docVars, textVars, adjustVars, isStyleApplying, showOriginal,
                 zoomVars, dragStart, initialPanOnDrag, selectionStart,
                 asyncVars, downloaded, probe>>

\* onMouseUp and onMouseLeave of the container
handleMouseUp ==
  /\ Viewing
  /\ IF isDrawingSelection
       THEN /\ isDrawingSelection' = FALSE
            /\ IF selection # NULL
                  /\ (RLt(selection.width, RInt(1)) \/ RLt(selection.height, RInt(1)))
                 THEN selection' = NULL /\ UNCHANGED isSelectionMode
               ELSE IF selection # NULL
                 THEN isSelectionMode' = FALSE /\ UNCHANGED selection
               ELSE UNCHANGED <<selection, isSelectionMode>>
       ELSE UNCHANGED <<isDrawingSelection, selection, isSelectionMode>>
  /\ isDragging' = FALSE
  /\ UNCHANGED <<docVars, textVars, adjustVars, isStyleApplying, showOriginal,
                 zoomVars, dragStart, initialPanOnDrag, selectionStart,
                 asyncVars, downloaded, probe>>

toggleSelectionMode ==
  /\ Viewing
  /\ isSelectionMode' = ~isSelectionMode
  /\ IF ~isSelectionMode
       THEN zoomScale' = OneX /\ panOffset' = Origin /\ selection' = NULL
       ELSE UNCHANGED <<zoomVars, selection>>
  /\ UNCHANGED <<docVars, textVars, adjustVars, isStyleApplying, showOriginal,
                 dragVars, isDrawingSelection, selectionStart, asyncVars,
                 downloaded, probe>>

clearSelection ==
  /\ Viewing
  /\ selection' = NULL
  /\ isSelectionMode' = FALSE
  /\ UNCHANGED <<docVars, textVars, adjustVars, isStyleApplying, showOriginal,
                 zoomVars, dragVars, isDrawingSelection, selectionStart,
                 asyncVars, downloaded, probe>>

(************************** inputs of the handlers *************************)
Directions == {"in", "out"}
CustomSteps == {UNDEFINED, Num(100), Num(3000)}
DeltaYs == {-3000, -100, 100, 3000}
Pointers == {0, ContainerPx \div 2, ContainerPx}
Points == Pointers \X Pointers
PercentInputs == {Num(0), Num(100), Num(200)}
HueInputs == {Num(0), Num(180), Num(360)}
FilePicks == {<<>>} \cup {<<f>> : f \in Files}
Calls == 1..(MaxInFlight + 1)

(**************************** next-state relation **************************)
\* The steps of the component, grouped by the part of the screen they
\* belong to, over the given sets of user and service inputs.
CreateStep(texts, responses) ==
  \/ \E text \in texts : setPrompt(text)
  \/ handleGenerate
  \/ \E g \in Calls, k \in 1..3, response \in responses :
       GenerateSettle(g, k, response)

ImportStep(picks) ==
  \/ \E files \in picks : handleFileChange(files)
  \/ \E f \in Calls : FileLoad(f)
  \/ \E f \in Calls : FileError(f)

BrowseStep ==
  \/ \E k \in 1..3 : k \in DOMAIN images /\ handleSelect(images[k])
  \/ \E direction \in {"next", "prev"} : navigateImages(direction)
  \/ reset

AdjustStep(filters, percents, hues) ==
  \/ \E f \in filters : setSelectedFilter(f)
  \/ \E v \in percents : setBrightness(v)
  \/ \E v \in percents : setContrast(v)
  \/ \E v \in hues : setHue(v)
  \/ \E v \in percents : setSaturation(v)

CaptionStep(captions) ==
  \/ \E text \in captions : setImageCaption(text)
  \/ \E held \in BOOLEAN : setShowOriginal(held)

ZoomStep(customSteps, deltaYs) ==
  \/ \E direction \in Directions, customStep \in customSteps :
       handleZoom(direction, customStep)
  \/ \E deltaY \in deltaYs, ctrlKey \in BOOLEAN, metaKey \in BOOLEAN :
       handleWheel(deltaY, ctrlKey, metaKey)
  \/ resetZoom

PointerStep(points) ==
  \/ \E p \in points : handleMouseDown(p[1], p[2])
  \/ \E p \in points : handleMouseMove(p[1], p[2])
  \/ handleMouseUp
  \/ toggleSelectionMode
  \/ clearSelection

SaveStep ==
  \/ handleSaveEdits
  \/ \E k \in Calls : SaveLoad(k)

DownloadStep ==
  \/ handleDownload
  \/ \E k \in Calls : DownloadLoad(k)

EditStep(texts, responses) ==
  \/ \E text \in texts : setEditPrompt(text)
  \/ handleEdit
  \/ \E k \in Calls, response \in responses : EditSettle(k, response)

StyleStep(texts, responses) ==
  \/ \E text \in texts : setStyleDescription(text)
  \/ handleApplyStyle
  \/ \E k \in Calls, response \in responses : StyleSettle(k, response)

Next ==
  \/ CreateStep(Texts, ImageResponses)
  \/ ImportStep(FilePicks)
  \/ BrowseStep
  \/ AdjustStep(FilterTypes, PercentInputs, HueInputs)
  \/ CaptionStep(Captions)
  \/ ZoomStep(CustomSteps, DeltaYs)
  \/ PointerStep(Points)
  \/ SaveStep
  \/ DownloadStep
  \/ EditStep(Texts, ImageResponses)
  \/ StyleStep(Texts, StyleResponses)

\* the whole component
Spec == Init /\ [][Next]_vars

(***************************************************************************)
(* Zoom: the image is created, imported, browsed and zoomed.               *)
(***************************************************************************)
\* a rejected request and one that returns an image
SomeImageResponses ==
  {Response(TRUE, <<>>),
   Response(FALSE, <<TextPart, InlinePart(Payload("ai1"))>>)}

\* a file that cannot be read and one that is read as a data URL
SomeFilePicks == {<<f>> : f \in {g \in Files : g.fails \/ g.result # NULL}}

NextZoom ==
  \/ CreateStep({<<"a">>}, SomeImageResponses)
  \/ ImportStep(SomeFilePicks)
  \/ BrowseStep
  \/ ZoomStep(CustomSteps, DeltaYs)

SpecZoom == Init /\ [][NextZoom]_vars

\* C1: in every state reachable by zoom buttons (with or without a custom
\* step), wheel zooms, resetZoom and image changes, zoomScale lies in the
\* closed range [0.5, 10], that is [100, 2000] in units of 0.005.
ZoomScaleInRange == zoomScale >= 100 /\ zoomScale <= 2000

\* C1 witness: the image is on screen and zooming out was stopped at 0.5
ZoomClampedAtMinimum == status = VIEWING /\ selectedImage # NULL /\ zoomScale = 100

(***************************************************************************)
(* Selection: an imported image, the selection tool, and the zoom buttons  *)
(* and wheel explored up to the unzoomed size.                             *)
(***************************************************************************)
\* pointer positions: two corners, the centre and the opposite corner
SomePoints ==
  {<<0, 0>>, <<ContainerPx \div 2, ContainerPx \div 2>>,
   <<ContainerPx, ContainerPx>>, <<ContainerPx, 0>>}

NextSelect ==
  \/ ImportStep(SomeFilePicks)
  \/ reset
  \/ ZoomStep({UNDEFINED}, {-100, 100}) /\ zoomScale' <= OneX
  \/ PointerStep(SomePoints)

SpecSelect == Init /\ [][NextSelect]_vars

\* C2: whenever selection is not null, x, y, width and height are
\* percentages between 0 and 100, and x + width and y + height do not
\* exceed 100.
SelectionWithinImage ==
  selection # NULL =>
    /\ RLe(RInt(0), selection.x) /\ RLe(selection.x, RInt(100))
    /\ RLe(RInt(0), selection.y) /\ RLe(selection.y, RInt(100))
    /\ RLe(RInt(0), selection.width) /\ RLe(selection.width, RInt(100))
    /\ RLe(RInt(0), selection.height) /\ RLe(selection.height, RInt(100))
    /\ RLe(RAdd(selection.x, selection.width), RInt(100))
    /\ RLe(RAdd(selection.y, selection.height), RInt(100))

(***************************************************************************)
(* Filter strings: getFilterString and getFilterStyle applied to a filter  *)
(* name and four slider arguments, any of which may be omitted.            *)
(***************************************************************************)
\* the arguments of one call
FilterStringInputs ==
  [filter : FilterTypes \cup {"Unknown"},
   b : {UNDEFINED, Num(0), Num(100), Num(150)},
   c : {UNDEFINED, Num(100), Num(80)},
   h : {UNDEFINED, Num(0), Num(180)},
   s : {UNDEFINED, Num(100), Num(200)},
   out : {NULL}]

InitFilterString == AppInit /\ probe \in FilterStringInputs

\* the call: getFilterString always, getFilterStyle (which declares no
\* defaults) when all four values are passed
ComposeFilterString ==
  /\ probe.out = NULL
  /\ probe' =
       [probe EXCEPT
          !.out =
             [string |-> getFilterString(probe.filter, probe.b, probe.c,
                                         probe.h, probe.s),
              style |->
                IF UNDEFINED \in {probe.b, probe.c, probe.h, probe.s}
                  THEN "not called"
                ELSE getFilterStyle(probe.filter, probe.b, probe.c, probe.h,
                                    probe.s)]]
  /\ UNCHANGED <<docVars, textVars, adjustVars, isStyleApplying, showOriginal,
                 zoomVars, dragVars, selVars, asyncVars, downloaded>>

SpecFilterString == InitFilterString /\ [][ComposeFilterString]_vars

\* C3: for every filter and slider values b, c, h, s, getFilterString
\* returns the filter's preset CSS functions (nothing for "None" or an
\* unknown filter) followed by exactly
\* "brightness(b%) contrast(c%) hue-rotate(hdeg) saturate(s%)", separated by
\* single spaces and without a leading space when there is no preset; an
\* omitted value is 100, 100, 0, 100 respectively.  getFilterStyle composes
\* the same string for the presets it knows.
FilterStringComposed ==
  (probe # NULL /\ probe.out # NULL) =>
    LET Used(arg, default) == IF arg = UNDEFINED THEN default ELSE arg.num
        adjustments ==
          "brightness(" \o ToString(Used(probe.b, 100))
            \o "%) contrast(" \o ToString(Used(probe.c, 100))
            \o "%) hue-rotate(" \o ToString(Used(probe.h, 0))
            \o "deg) saturate(" \o ToString(Used(probe.s, 100)) \o "%)"
        preset == BaseFilter(probe.filter)
        noPreset == probe.filter \in {"None", "Unknown"}
    IN  /\ noPreset <=> preset = "none"
        /\ probe.out.string =
             IF noPreset THEN adjustments ELSE preset \o " " \o adjustments
        /\ probe.out.style # "not called" =>
             probe.out.style =
               IF BaseFilterStyle(probe.filter) = "none" THEN adjustments
               ELSE probe.out.string

\* C3 witness: a preset filter called with the filter alone
FilterAloneComposed ==
  /\ probe # NULL
  /\ probe.filter = "Vintage"
  /\ probe.b = UNDEFINED /\ probe.c = UNDEFINED
  /\ probe.h = UNDEFINED /\ probe.s = UNDEFINED
  /\ probe.out # NULL
  /\ probe.out.string =
       "sepia(50%) contrast(120%) brightness(90%) hue-rotate(-30deg) brightness(100%) contrast(100%) hue-rotate(0deg) saturate(100%)"

(***************************************************************************)
(* Studio: three generated images, the first of them opened, tuned with    *)
(* the filter cards, sliders, caption, compare button, zoom, pan and       *)
(* selection tool, saved and edited by the AI.                             *)
(***************************************************************************)
\* tools that are away from their rest position at once
MaxTools == 1

ToolsInUse ==
  Cardinality(
    {i \in 1..9 :
       CASE i = 1 -> selectedFilter # "None"
         [] i = 2 -> brightness # Num(100)
         [] i = 3 -> contrast # Num(100)
         [] i = 4 -> hue # Num(0)
         [] i = 5 -> saturation # Num(100)
         [] i = 6 -> imageCaption # CaptionOrEmpty(selectedImage)
         [] i = 7 -> showOriginal
         [] i = 8 -> zoomVars # <<OneX, Origin>> \/ isDragging
         [] i = 9 -> isSelectionMode \/ selection # NULL \/ isDrawingSelection})

\* the two ends of a diagonal drag across the container
DragPoints == {<<0, 0>>, <<ContainerPx, ContainerPx>>}

NextStudio ==
  \/ CreateStep({<<"a">>}, SomeImageResponses)
  \/ images # <<>> /\ handleSelect(images[1])
  \/ reset
  \/ AdjustStep({"Sepia"}, {Num(200)}, {Num(180)}) /\ ToolsInUse' <= MaxTools
  \/ CaptionStep({<<"note">>}) /\ ToolsInUse' <= MaxTools
  \/ ZoomStep({Num(3000)}, {-3000}) /\ ToolsInUse' <= MaxTools
  \/ PointerStep(DragPoints) /\ ToolsInUse' <= MaxTools
  \/ SaveStep
  \/ EditStep({<<"a">>}, SomeImageResponses)

SpecStudio == Init /\ [][NextStudio]_vars

\* C4: choosing a filter, moving a slider, zooming, panning, drawing or
\* clearing a selection, holding the compare button and editing the caption
\* leave selectedImage and every entry of images unchanged; the pixel data
\* or the caption stored in an image that stays in its place changes only
\* in a step that completes handleSaveEdits or in which an AI edit succeeds.
AdjustmentsNonDestructive ==
  [][LET adjusting ==
           \/ \E f \in FilterTypes : setSelectedFilter(f)
           \/ \E v \in PercentInputs :
                setBrightness(v) \/ setContrast(v) \/ setSaturation(v)
           \/ \E v \in HueInputs : setHue(v)
           \/ \E direction \in Directions, customStep \in CustomSteps :
                handleZoom(direction, customStep)
           \/ \E deltaY \in DeltaYs, ctrlKey \in BOOLEAN, metaKey \in BOOLEAN :
                handleWheel(deltaY, ctrlKey, metaKey)
           \/ resetZoom
           \/ \E p \in Points :
                handleMouseDown(p[1], p[2]) \/ handleMouseMove(p[1], p[2])
           \/ handleMouseUp
           \/ toggleSelectionMode
           \/ clearSelection
           \/ \E held \in BOOLEAN : setShowOriginal(held)
           \/ \E text \in Captions : setImageCaption(text)
         storedChanged ==
           \/ /\ selectedImage # NULL
              /\ selectedImage' # NULL
              /\ selectedImage'.id = selectedImage.id
              /\ selectedImage' # selectedImage
           \/ \E k \in DOMAIN images \cap DOMAIN images' :
                images'[k].id = images[k].id /\ images'[k] # images[k]
         saveCompletes == \E k \in Calls : SaveLoad(k)
         editSucceeds ==
           \E k \in Calls, response \in ImageResponses :
             EditSettle(k, response) /\ editImage(response) # THROWN
     IN  /\ adjusting => UNCHANGED <<selectedImage, images>>
         /\ storedChanged => saveCompletes \/ editSucceeds]_vars

\* C4 witness: the first of three images was saved with a baked-in filter,
\* and a filter is chosen again for it while its stored copy is untouched
TunedAfterSave ==
  /\ status = VIEWING
  /\ Len(images) = 3
  /\ selectedImage = images[1]
  /\ images[1].url.b64.ops # <<>>
  /\ images[2].url.b64.ops = <<>>
  /\ selectedFilter = "Sepia"

(***************************************************************************)
(* Saving: generated and imported images, the second of three generated    *)
(* images opened, given a filter and a caption, and saved.                 *)
(***************************************************************************)
NextSave ==
  \/ CreateStep({<<"a">>}, SomeImageResponses)
  \/ ImportStep(SomeFilePicks)
  \/ Len(images) >= 2 /\ handleSelect(images[2])
  \/ reset
  \/ setSelectedFilter("Sepia")
  \/ setImageCaption(<<"note">>)
  \/ SaveStep

SpecSave == Init /\ [][NextSave]_vars

\* C5: when handleSaveEdits completes, with c the values of the render in
\* which it was invoked, the new selected image keeps the id and prompt of
\* the image saved, carries the canvas output as url and base64 and the
\* caption typed; if the image saved was in images, the list has the same
\* length, the entry at its index is the new image and every other entry is
\* as it was; if it was not, images is unchanged; status is VIEWING.
SaveReplacesInPlace ==
  [][\A k \in Calls :
       SaveLoad(k) =>
         LET c == saves[k]
             old == c.selectedImage
             new == selectedImage'
             inList == \E j \in DOMAIN c.images : c.images[j].id = old.id
             at == CHOOSE j \in DOMAIN c.images :
                     /\ c.images[j].id = old.id
                     /\ \A m \in 1..(j - 1) : c.images[m].id # old.id
         IN  /\ new.id = old.id
             /\ new.prompt = old.prompt
             /\ new.url = DataUrl("image/png", Bake(old.url.b64, FilteredDraw(c)))
             /\ new.base64 = new.url.b64
             /\ new.caption = c.imageCaption
             /\ IF inList
                  THEN /\ Len(images') = Len(c.images)
                       /\ images'[at] = new
                       /\ \A j \in DOMAIN c.images \ {at} :
                            images'[j] = c.images[j]
                  ELSE images' = images
             /\ status' = VIEWING]_vars

\* C5 witness: the second of three images was saved with a filter baked in
\* and a caption, and its neighbours are as generated
SavedInPlace ==
  /\ status = VIEWING
  /\ Len(images) = 3
  /\ selectedImage = images[2]
  /\ images[2].caption = <<"note">>
  /\ images[2].url.b64.ops # <<>>
  /\ images[2].base64 = images[2].url.b64
  /\ \A j \in {1, 3} : images[j].caption = <<>> /\ images[j].url.b64.ops = <<>>

(***************************************************************************)
(* Baking: an imported image, a filter card, the selection tool, saving    *)
(* and downloading; the tools rest while a download is being prepared.     *)
(***************************************************************************)
\* a drag between the quarter points of the container's diagonal
InnerPoints ==
  {<<ContainerPx \div 4, ContainerPx \div 4>>,
   <<(3 * ContainerPx) \div 4, (3 * ContainerPx) \div 4>>}

NextBake ==
  \/ ImportStep(SomeFilePicks)
  \/ reset
  \/ downloads = <<>> /\ (\E f \in {"Sepia", "Dreamy"} : setSelectedFilter(f))
  \/ downloads = <<>> /\ PointerStep(InnerPoints)
  \/ SaveStep
  \/ DownloadStep

SpecBake == Init /\ [][NextBake]_vars

\* C6: when a selection exists, handleSaveEdits and handleDownload apply the
\* filter and adjustments only to the pixel rectangle sx = x*W/100,
\* sy = y*H/100, sw = width*W/100, sh = height*H/100 and every pixel outside
\* that rectangle equals the original; when no selection exists they are
\* applied to every pixel of the image.
BakeKeepsToSelection ==
  [][LET RegionOnly(c, out) ==
           LET orig == c.selectedImage.url.b64
               css == getFilterString(c.selectedFilter, c.brightness,
                                      c.contrast, c.hue, c.saturation)
               rect == SelectionRectPx(c.selection, ImgW, ImgH)
               outside(i, j) ==
                 \/ RLe(RInt(i + 1), rect.sx)
                 \/ RLe(RAdd(rect.sx, rect.sw), RInt(i))
                 \/ RLe(RInt(j + 1), rect.sy)
                 \/ RLe(RAdd(rect.sy, rect.sh), RInt(j))
               inside(i, j) ==
                 /\ RLe(rect.sx, RInt(i))
                 /\ RLe(RInt(i + 1), RAdd(rect.sx, rect.sw))
                 /\ RLe(rect.sy, RInt(j))
                 /\ RLe(RInt(j + 1), RAdd(rect.sy, rect.sh))
               adjusted(i, j) ==
                 IF IdentityFilter(css) THEN Pixel(out, i, j) = Pixel(orig, i, j)
                 ELSE Pixel(out, i, j) \in
                        {[filter |-> css, under |-> Pixel(orig, i, j),
                          blended |-> b, px |-> <<i, j>>] : b \in BOOLEAN}
           IN  \A i \in 0..(ImgW - 1), j \in 0..(ImgH - 1) :
                 IF c.selection = NULL THEN adjusted(i, j)
                 ELSE /\ outside(i, j) => Pixel(out, i, j) = Pixel(orig, i, j)
                      /\ inside(i, j) => adjusted(i, j)
     IN  \A k \in Calls :
           /\ SaveLoad(k) => RegionOnly(saves[k], selectedImage'.url.b64)
           /\ DownloadLoad(k) => RegionOnly(downloads[k], downloaded'.b64)]_vars

(***************************************************************************)
(* Generating and browsing: prompts, the three requests of a generation    *)
(* and their answers, file imports, and the gallery's navigation.          *)
(***************************************************************************)
NextGenerate ==
  \/ CreateStep(Texts, ImageResponses)
  \/ ImportStep(SomeFilePicks)
  \/ BrowseStep

SpecGenerate == Init /\ [][NextGenerate]_vars

\* C7: handleGenerate with a non-blank prompt sets status to GENERATING,
\* empties images, clears selectedImage and issues exactly three requests,
\* one for each of the variation indices 0, 1 and 2.  When the last of the
\* three answers arrives and all carry an image, images is the three images
\* in index order and status is SELECTING; before that nothing is shown.
\* When an answer fails, status is IDLE, error is set and images is left as
\* it is, which is empty as long as status is still GENERATING.
GenerationAllOrNothing ==
  [][/\ (handleGenerate /\ \E i \in DOMAIN prompt : prompt[i] # " ") =>
          /\ status' = GENERATING
          /\ images' = <<>>
          /\ selectedImage' = NULL
          /\ Len(generations') = Len(generations) + 1
          /\ LET gen == generations'[Len(generations')]
             IN  /\ gen.prompt = prompt
                 /\ DOMAIN gen.calls = 1..3
                 /\ \A k \in 1..3 :
                      gen.calls[k] = [variationIndex |-> k - 1,
                                      result |-> PENDING]
     /\ \A g \in Calls, k \in 1..3, response \in ImageResponses :
          GenerateSettle(g, k, response) =>
            LET gen == generations[g]
                inline == {i \in DOMAIN response.parts :
                             response.parts[i].inlineData # NULL}
                failed == response.rejected \/ inline = {}
                data == response.parts[CHOOSE i \in inline :
                                         \A m \in inline : i <= m].inlineData.data
                last == \A j \in 1..3 \ {k} : gen.calls[j].result # PENDING
            IN  IF failed
                  THEN /\ status' = IDLE
                       /\ error' = GenerateErrorMsg
                       /\ images' = images
                       /\ status = GENERATING => images' = <<>>
                ELSE IF last
                  THEN /\ status' = SELECTING
                       /\ Len(images') = 3
                       /\ \A j \in 1..3 :
                            /\ images'[j].base64 =
                                 (IF j = k THEN data
                                  ELSE gen.calls[j].result.base64)
                            /\ images'[j].url =
                                 DataUrl("image/png", images'[j].base64)
                            /\ images'[j].prompt = gen.prompt
                            /\ gen.calls[j].variationIndex = j - 1
                       /\ \A i, j \in 1..3 :
                            i # j => images'[i].id # images'[j].id
                ELSE UNCHANGED <<status, images, selectedImage, error>>]_vars

\* C7 witness: a generation has delivered three images, the first and the
\* last with different pictures
ThreeImagesDelivered ==
  /\ status = SELECTING
  /\ Len(images) = 3
  /\ generations = <<>>
  /\ images[1].base64 = Payload("ai1")
  /\ images[3].base64 = Payload("ai2")
  /\ \A j \in 1..3 : images[j].prompt = <<"a">>

\* C10: with at least two images and the selected image in the list,
\* navigateImages('next') selects the entry after the selected one, the first
\* after the last, and navigateImages('prev') the entry before it, the last
\* before the first; the selected image is then an entry of images.  With
\* fewer than two images, or the selected image not in the list, nothing
\* changes.
NavigationWraps ==
  [][\A direction \in {"next", "prev"} :
       navigateImages(direction) =>
         LET n == Len(images)
             at == IF selectedImage = NULL THEN {}
                   ELSE {j \in 1..n : images[j].id = selectedImage.id}
             i == CHOOSE j \in at : \A m \in at : j <= m
         IN  IF n >= 2 /\ at # {}
               THEN /\ selectedImage' =
                         images[IF direction = "next"
                                  THEN (IF i = n THEN 1 ELSE i + 1)
                                  ELSE (IF i = 1 THEN n ELSE i - 1)]
                    /\ \E j \in DOMAIN images' : images'[j] = selectedImage'
                    /\ images' = images
               ELSE UNCHANGED vars]_vars

\* C10 witness: the last of three images is on screen, where 'next' wraps
LastImageOnScreen ==
  /\ status = VIEWING
  /\ Len(images) = 3
  /\ selectedImage = images[3]
  /\ images[1].id # images[3].id

(***************************************************************************)
(* Editing: an image generated or imported (one or the other under way at  *)
(* a time), a filter and a caption, the edit prompt and the style          *)
(* description with their requests.                                        *)
(***************************************************************************)
NextEdit ==
  \/ fileReads = <<>> /\ CreateStep({<<" ">>, <<"a">>}, SomeImageResponses)
  \/ generations = <<>> /\ ImportStep(SomeFilePicks)
  \/ images # <<>> /\ handleSelect(images[1])
  \/ reset
  \/ setSelectedFilter("Sepia")
  \/ setImageCaption(<<"note">>)
  \/ EditStep(Texts, ImageResponses)
  \/ StyleStep(Texts, StyleResponses)

SpecEdit == Init /\ [][NextEdit]_vars

BlankInputsIgnored ==
  [][LET blank(s) == \A i \in DOMAIN s : s[i] = " "
     IN  /\ (handleGenerate /\ blank(prompt)) => UNCHANGED vars
         /\ (handleEdit /\ (selectedImage = NULL \/ blank(editPrompt))) =>
              UNCHANGED vars
         /\ (handleApplyStyle /\ blank(styleDescription)) =>
              UNCHANGED vars]_vars

\* C9 witness: the VIEWING screen with white space in the prompt, the edit
\* prompt and the style description, and no request under way
BlankInputsOnScreen ==
  /\ Viewing
  /\ prompt = <<" ">>
  /\ editPrompt = <<" ">>
  /\ styleDescription = <<" ">>
  /\ generations = <<>> /\ edits = <<>> /\ styleCalls = <<>>
  /\ ~isStyleApplying

(***************************************************************************)
(* Adjustment values                                                       *)
(***************************************************************************)
\* C11: in every reachable state brightness, contrast and saturation are
\* numbers within 0..200, hue is a number within 0..360 and selectedFilter
\* is one of the eleven filter names, whatever the style-by-description
\* service returns.
AdjustmentsInRange ==
  /\ selectedFilter \in FilterTypes
  /\ brightness \in {Num(n) : n \in 0..200}
  /\ contrast \in {Num(n) : n \in 0..200}
  /\ saturation \in {Num(n) : n \in 0..200}
  /\ hue \in {Num(n) : n \in 0..360}

(***************************************************************************)
(* Drawing a selection                                                     *)
(***************************************************************************)
\* C12: while a selection is being drawn, a mouse move to any pointer
\* position sets selection to the rectangle spanned by the anchor point
\* (selectionStart) and the pointer position in percent: x and y are the
\* smaller coordinates, width and height the distances, which are never
\* negative, and the rectangle is the same with anchor and pointer swapped.
SelectionSpansAnchorAndPointer ==
  [][\A p \in Points :
       (handleMouseMove(p[1], p[2]) /\ isDrawingSelection /\ isSelectionMode) =>
         LET rect == BoundingClientRect
             current == [x |-> Percent(p[1], rect.left, rect.width),
                         y |-> Percent(p[2], rect.top, rect.height)]
             Span(a, b) ==
               [x |-> IF RLe(a.x, b.x) THEN a.x ELSE b.x,
                y |-> IF RLe(a.y, b.y) THEN a.y ELSE b.y,
                width |-> IF RLe(a.x, b.x) THEN RSub(b.x, a.x)
                          ELSE RSub(a.x, b.x),
                height |-> IF RLe(a.y, b.y) THEN RSub(b.y, a.y)
                           ELSE RSub(a.y, b.y)]
         IN  /\ selection' = Span(selectionStart, current)
             /\ selection' = Span(current, selectionStart)
             /\ RLe(RInt(0), selection'.width)
             /\ RLe(RInt(0), selection'.height)]_vars

\* C12 witness: a selection being drawn towards the left of its anchor
DrawnLeftOfAnchor ==
  /\ isDrawingSelection
  /\ isSelectionMode
  /\ selection # NULL
  /\ RLt(selection.x, selectionStart.x)
  /\ RLt(RInt(0), selection.width)
  /\ RAdd(selection.x, selection.width) = selectionStart.x

\* C13: whenever no selection is being drawn, selection is null or at least
\* 1% wide and 1% high; a mouse-up or mouse-leave that ends a drawing
\* discards a rectangle narrower or shorter than 1% and leaves selection
\* mode as it is, and keeps any other rectangle and switches selection mode
\* off.
SelectionKeptOrDiscarded ==
  /\ [](~isDrawingSelection =>
          \/ selection = NULL
          \/ /\ RLe(RInt(1), selection.width)
             /\ RLe(RInt(1), selection.height))
  /\ [][(handleMouseUp /\ isDrawingSelection /\ selection # NULL) =>
          /\ ~isDrawingSelection'
          /\ IF selection.width[1] < selection.width[2]
                \/ selection.height[1] < selection.height[2]
               THEN selection' = NULL /\ isSelectionMode' = isSelectionMode
               ELSE selection' = selection /\ ~isSelectionMode']_vars

\* C13 witness: a drawn rectangle was kept and selection mode is off
DrawnSelectionKept ==
  /\ Viewing
  /\ ~isDrawingSelection
  /\ ~isSelectionMode
  /\ selection # NULL
  /\ RLe(RInt(1), selection.width)
  /\ RLe(RInt(1), selection.height)

(***************************************************************************)
(* Panning: an imported image, the zoom buttons and wheel up to two steps  *)
(* above the unzoomed size, used while the selection tool is off, and the  *)
(* pointer dragged along a diagonal.                                       *)
(***************************************************************************)
NextPan ==
  \/ ImportStep(SomeFilePicks)
  \/ reset
  \/ /\ ~isSelectionMode
     /\ ZoomStep({UNDEFINED}, {-100, 100})
     /\ zoomScale' <= OneX + 2 * DefaultStep
  \/ PointerStep(DragPoints)

SpecPan == Init /\ [][NextPan]_vars

PanOnlyWhileZoomedIn == zoomScale <= OneX => panOffset = Origin

(***************************************************************************)
(* Session: images generated or imported (one or the other under way at a  *)
(* time), opened, browsed, tuned with one tool at a time (the Sepia card,   *)
(* the saturation slider, the caption, the compare button, zoom, pan or    *)
(* the selection tool), saved, edited by the AI and dismissed; the pointer *)
(* is pressed at the container's top left corner and moved to its bottom   *)
(* right corner.                                                           *)
(***************************************************************************)
NextSession ==
  \/ fileReads = <<>> /\ CreateStep({<<"a">>}, SomeImageResponses)
  \/ generations = <<>> /\ ImportStep(SomeFilePicks)
  \/ BrowseStep
  \/ /\ setSelectedFilter("Sepia") \/ setSaturation(Num(200))
     /\ ToolsInUse' <= MaxTools
  \/ CaptionStep({<<"note">>}) /\ ToolsInUse' <= MaxTools
  \/ ZoomStep({Num(3000)}, {-3000}) /\ ToolsInUse' <= MaxTools
  \/ /\ \/ handleMouseDown(0, 0)
        \/ handleMouseMove(ContainerPx, ContainerPx)
        \/ handleMouseUp
        \/ toggleSelectionMode
        \/ clearSelection
     /\ ToolsInUse' <= MaxTools
  \/ SaveStep
  \/ EditStep({<<"a">>}, SomeImageResponses)

SpecSession == Init /\ [][NextSession]_vars

\* C16: in every step that changes selectedImage (select, navigate, import,
\* completed save, successful AI edit, reset, generate) zoomScale becomes 1,
\* panOffset (0,0), selection null, selection mode off, showOriginal false,
\* and imageCaption the caption of the new selected image, or empty when
\* there is no selected image.
ImageChangeResetsView ==
  [][selectedImage' # selectedImage =>
       /\ zoomScale' = OneX
       /\ panOffset' = Origin
       /\ selection' = NULL
       /\ ~isSelectionMode'
       /\ ~showOriginal'
       /\ imageCaption' =
            (IF selectedImage' = NULL THEN <<>> ELSE selectedImage'.caption)]_vars

\* C16 witness: the first image was saved with a caption and the second one
\* is now on screen with its own, empty caption
CaptionOfNewImageLoaded ==
  /\ Viewing
  /\ Len(images) = 3
  /\ images[1].caption = <<"note">>
  /\ selectedImage = images[2]
  /\ images[2].caption = <<>>
  /\ imageCaption = <<>>

\* C17: handleSelect, navigateImages when it navigates, a completed import,
\* handleGenerate, reset, a completed handleSaveEdits and a successful
\* handleEdit each end with selectedFilter None, brightness 100, contrast
\* 100, hue 0, saturation 100, zoomScale 1, panOffset (0,0) and selection
\* null.
OperationsDiscardAdjustments ==
  [][(\/ \E k \in 1..3 : k \in DOMAIN images /\ handleSelect(images[k])
      \/ \E direction \in {"next", "prev"} :
           navigateImages(direction) /\ Len(images) > 1
             /\ selectedImage # NULL
             /\ \E j \in DOMAIN images : images[j].id = selectedImage.id
      \/ \E f \in Calls : FileLoad(f) /\ fileReads[f].result # NULL
      \/ handleGenerate /\ \E i \in DOMAIN prompt : prompt[i] # " "
      \/ reset
      \/ \E k \in Calls : SaveLoad(k)
      \/ \E k \in Calls, response \in ImageResponses :
           /\ EditSettle(k, response)
           /\ ~response.rejected
           /\ \E i \in DOMAIN response.parts :
                response.parts[i].inlineData # NULL) =>
       /\ selectedFilter' = "None"
       /\ brightness' = Num(100)
       /\ contrast' = Num(100)
       /\ hue' = Num(0)
       /\ saturation' = Num(100)
       /\ zoomScale' = OneX
       /\ panOffset' = Origin
       /\ selection' = NULL]_vars

\* C17 witness: an image saved with the Sepia card baked in is on screen and
\* every adjustment is back at its rest position
AdjustmentsDiscardedAfterSave ==
  /\ Viewing
  /\ saves = <<>>
  /\ selectedImage.url.b64.ops # <<>>
  /\ selectedImage.id[1] = "imported"
  /\ adjustVars = <<"None", Num(100), Num(100), Num(0), Num(100)>>
  /\ zoomVars = <<OneX, Origin>>
  /\ selection = NULL

SaveLeavesNothingPending ==
  [][\A k \in Calls : SaveLoad(k) => ~hasPendingEdits']_vars

\* C19 witness: an image saved with something baked in is on screen and
\* nothing is pending
NothingPendingAfterSave ==
  /\ Viewing
  /\ saves = <<>>
  /\ selectedImage.url.b64.ops # <<>>
  /\ selectedImage.id[1] = "img"
  /\ ~hasPendingEdits

\* C20: when the editImage call of handleEdit succeeds, with c the values of
\* the render in which handleEdit was invoked, the new selected image has an
\* id that no image held before has, the prompt of the image edited followed
\* by ' + ' and the edit prompt, the caption typed and the picture returned;
\* if the image edited was in images, the list has the same length, the
\* entry at its index is the new image and every other entry is as it was;
\* if it was not, images is unchanged; editPrompt is empty and status is
\* VIEWING.
EditReplacesInPlace ==
  [][\A k \in Calls, response \in ImageResponses :
       LET inline == {i \in DOMAIN response.parts :
                        response.parts[i].inlineData # NULL}
       IN  (EditSettle(k, response) /\ ~response.rejected /\ inline # {}) =>
             LET c == edits[k]
                 old == c.selectedImage
                 new == selectedImage'
                 data == response.parts[CHOOSE i \in inline :
                           \A m \in inline : i <= m].inlineData.data
                 at == {j \in DOMAIN c.images : c.images[j].id = old.id}
                 first == CHOOSE j \in at : \A m \in at : j <= m
             IN  /\ new.id # old.id
                 /\ \A j \in DOMAIN c.images : new.id # c.images[j].id
                 /\ \A j \in DOMAIN images : new.id # images[j].id
                 /\ new.prompt = old.prompt \o <<" ", "+", " ">> \o c.editPrompt
                 /\ new.caption = c.imageCaption
                 /\ new.base64 = data
                 /\ new.url = DataUrl("image/png", data)
                 /\ IF at # {}
                      THEN /\ Len(images') = Len(c.images)
                           /\ images'[first] = new
                           /\ \A j \in DOMAIN c.images \ {first} :
                                images'[j] = c.images[j]
                      ELSE images' = images
                 /\ editPrompt' = <<>>
                 /\ status' = VIEWING]_vars

\* C20 witness: the first of three generated images was replaced by its
\* edited version, which carries the caption typed before the edit
EditedInPlace ==
  /\ Viewing
  /\ edits = <<>>
  /\ Len(images) = 3
  /\ selectedImage = images[1]
  /\ images[1].id[1] = "edit"
  /\ images[1].prompt = <<"a", " ", "+", " ", "a">>
  /\ images[1].caption = <<"note">>
  /\ images[2].id[1] = "img"
  /\ editPrompt = <<>>

(***************************************************************************)
(* Late answers                                                            *)
(***************************************************************************)
\* C21: whenever status is IDLE, selectedFilter is None and brightness,
\* contrast, hue and saturation are 100, 100, 0 and 100, also when a style
\* suggestion requested before reset() is answered only afterwards.
IdleHasNoAdjustments ==
  status = IDLE =>
    adjustVars = <<"None", Num(100), Num(100), Num(0), Num(100)>>

\* C22: when a file read completes with a result, the imported image is the
\* selected image, images is empty and status is VIEWING; and while that
\* imported image is on screen, an answer to a request of a generation
\* started during the read changes none of the three.
ImportReplacesGeneratedSet ==
  [][/\ \A f \in Calls :
          (FileLoad(f) /\ fileReads[f].result # NULL) =>
            /\ selectedImage' # NULL
            /\ selectedImage'.id[1] = "imported"
            /\ selectedImage'.url = fileReads[f].result
            /\ images' = <<>>
            /\ status' = VIEWING
     /\ \A g \in Calls, k \in 1..3, response \in ImageResponses :
          (/\ GenerateSettle(g, k, response)
           /\ status = VIEWING
           /\ images = <<>>
           /\ selectedImage # NULL
           /\ selectedImage.id[1] = "imported") =>
            /\ selectedImage' = selectedImage
            /\ images' = <<>>
            /\ status' = VIEWING]_vars

(***************************************************************************)
(* The image service: generateSingleImage, editImage and resizeImage       *)
(* applied to the answers of generateContent: a call that is rejected, or  *)
(* a response with no, one or several candidates, each with or without     *)
(* content and parts; an inline part carries its data.                     *)
(***************************************************************************)
MaxCandidates == 2
MaxParts == 2

\* CandidateParts looking at the last candidate
LastCandidateParts(response) ==
  IF response.candidates = UNDEFINED \/ response.candidates.items = <<>>
    THEN <<>>
  ELSE LET candidate ==
             response.candidates.items[Len(response.candidates.items)]
       IN  IF candidate.content = UNDEFINED THEN <<>>
           ELSE IF candidate.content.parts = UNDEFINED THEN <<>>
           ELSE candidate.content.parts.items

\* response.candidates?.[0]?.content?.parts || [], an array being the
\* record of its items
CandidateParts(response) ==
  IF response.candidates = UNDEFINED \/ response.candidates.items = <<>>
    THEN <<>>
  ELSE LET candidate == response.candidates.items[1]
       IN  IF candidate.content = UNDEFINED THEN <<>>
           ELSE IF candidate.content.parts = UNDEFINED THEN <<>>
           ELSE candidate.content.parts.items

InitService ==
  /\ AppInit
  /\ LET ArraysUpTo(S, n) ==
           {[items |-> s] : s \in UNION {[1..m -> S] : m \in 0..n}}
         parts ==
           ArraysUpTo({TextPart} \cup {InlinePart(d) : d \in ServiceData},
                      MaxParts)
         candidates ==
           {[content |-> UNDEFINED], [content |-> [parts |-> UNDEFINED]]}
             \cup {[content |-> [parts |-> ps]] : ps \in parts}
     IN  probe \in [rejected : BOOLEAN,
                    response :
                      [candidates :
                         {UNDEFINED} \cup ArraysUpTo(candidates, MaxCandidates)],
                    out : {NULL}]

\* the three functions called with the same answer of generateContent
CallService ==
  /\ probe.out = NULL
  /\ LET response == Response(probe.rejected, CandidateParts(probe.response))
     IN  probe' = [probe EXCEPT
                     !.out = [generate |-> generateSingleImage(response),
                              edit |-> editImage(response),
                              resize |-> resizeImage(response)]]
  /\ UNCHANGED <<docVars, textVars, adjustVars, isStyleApplying, showOriginal,
                 zoomVars, dragVars, selVars, asyncVars, downloaded>>

SpecService == InitService /\ [][CallService]_vars

====
